---- MODULE Spec2Model ----
(***************************************************************************)
(* BasePingApp (src/ping.ts): a React component that connects a wallet,    *)
(* calls ping() on the PingOnce contract and shows the uniquePings counter.*)
(*                                                                         *)
(* The React state (useState cells), the effects, the two click handlers   *)
(* and the continuations of their awaits are modelled as one state machine.*)
(* The wallet, the chain and the event stream of the contract are the      *)
(* environment: they answer each outstanding call with success or failure. *)
(***************************************************************************)
EXTENDS Integers, Naturals, Sequences, FiniteSets, TLC

(***************************************************************************)
(* Bounds of the model.                                                    *)
(***************************************************************************)
MaxEvents  == 2      \* clicks of the user (connectWallet, doPing that passes
                     \* the guard) and pings of other wallets in a run
MaxHandles == 4      \* signer/handle identities told apart

NULL == <<>>

Accounts == {"0xA1"}
Hashes   == <<"0xabc", "0xdef", "0x123", "0x456", "0x789">>
Address  == "0xC0"

(***************************************************************************)
(* Wide integers.  uint256 values and JavaScript numbers are written as    *)
(* two decimal limbs <<hi, lo>> = hi * Limb + lo, so that the values       *)
(* around 2^53 can be written down.                                        *)
(***************************************************************************)
Limb == 10000 * 10000

TwoTo53 == <<90071992, 54740992>>      \* 2^53 = 9007199254740992

Zero == <<0, 0>>

Succ(v) == IF v[2] + 1 = Limb THEN <<v[1] + 1, 0>> ELSE <<v[1], v[2] + 1>>

Pred(v) == IF v[2] = 0 THEN <<v[1] - 1, Limb - 1>> ELSE <<v[1], v[2] - 1>>

RECURSIVE Plus(_, _)
Plus(v, n) == IF n = 0 THEN v ELSE Plus(Succ(v), n - 1)

Leq(v, w) == v[1] < w[1] \/ (v[1] = w[1] /\ v[2] <= w[2])

Less(v, w) == Leq(v, w) /\ v # w

\* BigNumber.toString(): the decimal digits, most significant first
RECURSIVE Digits(_)
Digits(n) == IF n < 10 THEN <<n>> ELSE Digits(n \div 10) \o <<n % 10>>

RECURSIVE Pad(_, _)
Pad(ds, w) == IF Len(ds) >= w THEN ds ELSE Pad(<<0>> \o ds, w)

BigToString(v) == IF v[1] = 0 THEN Digits(v[2])
                  ELSE Digits(v[1]) \o Pad(Digits(v[2]), 8)

\* the exact integer a decimal string denotes
RECURSIVE ParseLimb(_, _)
ParseLimb(ds, acc) == IF ds = <<>> THEN acc
                      ELSE ParseLimb(Tail(ds), acc * 10 + Head(ds))

ParseDecimal(ds) ==
    IF Len(ds) <= 8 THEN <<0, ParseLimb(ds, 0)>>
    ELSE <<ParseLimb(SubSeq(ds, 1, Len(ds) - 8), 0),
           ParseLimb(SubSeq(ds, Len(ds) - 7, Len(ds)), 0)>>

\* IEEE-754 double nearest to an integer below 2^54: exact up to 2^53, and
\* above it the even integers, an odd one going to the neighbour whose
\* significand is even (the multiple of 4)
RoundToDouble(v) ==
    IF Leq(v, TwoTo53) \/ v[2] % 2 = 0 THEN v
    ELSE IF v[2] % 4 = 1 THEN Pred(v) ELSE Succ(v)

\* a coercion that keeps only the low limb of the value
ToNumberLowLimb(v) == <<0, v[2]>>

\* Number(x.toString())
ToNumber(v) == RoundToDouble(ParseDecimal(BigToString(v)))

(***************************************************************************)
(* Status texts.                                                           *)
(***************************************************************************)
GUIDANCE  == "Contract not set. Make sure NEXT_PUBLIC_CONTRACT_ADDRESS is configured and MetaMask connected."
SENDING   == "Sending transaction -- waiting for wallet confirmation..."
SENT      == "Transaction sent. Waiting for confirmation..."
CONFIRMED == "Confirmed! Thank you for pinging."
REJECTED  == "Wallet connection rejected"
FALLBACK  == "Transaction failed or rejected."

\* the shapes of the errors contract.ping() and tx.wait() reject with:
\* err.data.message and err.message, "" when the field is absent
Errors == { [data |-> "insufficient funds", message |-> "execution reverted"],
            [data |-> "insufficient funds", message |-> ""],
            [data |-> "",                   message |-> "user rejected transaction"],
            [data |-> "",                   message |-> ""] }

(***************************************************************************)
(* State.                                                                  *)
(***************************************************************************)
VARIABLES
    ethereum,          \* window.ethereum is present
    CONTRACT_ADDRESS,  \* process.env.NEXT_PUBLIC_CONTRACT_ADDRESS || ""
    mounted,           \* "mounting" (first render done), "mounted", "unmounted"
    provider,          \* useState: 0 is null, else the identity of the Web3Provider
    signer,            \* useState: 0 is null, else the identity of the signer
    account,           \* useState: "" or the address
    contract,          \* useState: 0 is null, else the handle (named by its signer)
    status,            \* useState
    uniquePings,       \* useState: NULL or a number
    lastRead,          \* v of the last answered uniquePings() call, NULL if none
    txHash,            \* useState
    effProvider,       \* the provider the effects last ran with (their deps)
    effSigner,         \* the signer the handle effect last ran with
    effContract,       \* the handle whose cleanup is registered, 0 if none
    subs,              \* handles with onPing registered for "Ping"
    notif,             \* <<handle, n>>: the n-th Ping event, emitted to the
                       \* listener of that handle and not yet delivered
    applied,           \* how often onPing applied the n-th Ping event
    chainBase,         \* uniquePings of the contract when the page loads
    chain,             \* successful pings mined since then
    walletAuth,        \* the account the wallet has authorized for the page, or ""
    listPending,       \* provider.listAccounts() calls in flight
    connPending,       \* eth_requestAccounts prompts open
    events,            \* clicks and foreign pings so far
    reads,             \* reads[k]: effect reads in flight issued when chain = k
    attempts,          \* the doPing invocations, by slot
    alerted,           \* the install notice was shown
    unhandled          \* a rejected promise had no handler

vars == <<ethereum, CONTRACT_ADDRESS, mounted, provider, signer, account,
          contract, status, uniquePings, lastRead, txHash, effProvider,
          effSigner, effContract, subs, notif, applied, chainBase, chain,
          walletAuth, listPending, connPending, events, reads, attempts,
          alerted, unhandled>>

env      == <<ethereum, CONTRACT_ADDRESS, chainBase>>
effState == <<effProvider, effSigner, effContract>>

Slots == 1..MaxEvents

IdleAttempt == [pc |-> "Idle", h |-> "", k0 |-> 0]

\* a fresh contract, and one whose counter has reached 2^53
StartValues == {Zero, TwoTo53}

\* the contract's counter after n successful pings
ChainValue(n) == Plus(chainBase, n)

Init ==
    /\ ethereum \in BOOLEAN
    /\ CONTRACT_ADDRESS \in {"", Address}
    /\ chainBase \in StartValues
    /\ walletAuth \in (IF ethereum THEN {""} \cup Accounts ELSE {""})
    /\ mounted = "mounting"
    /\ provider = 0 /\ signer = 0 /\ account = "" /\ contract = 0
    /\ status = "" /\ uniquePings = NULL /\ txHash = ""
    /\ lastRead = NULL
    /\ effProvider = 0 /\ effSigner = 0 /\ effContract = 0
    /\ subs = {} /\ notif = {}
    /\ applied = [n \in 1..MaxEvents |-> 0]
    /\ chain = 0
    /\ listPending = 0 /\ connPending = 0 /\ events = 0
    /\ reads = [k \in 0..MaxEvents |-> 0]
    /\ attempts = [s \in Slots |-> IdleAttempt]
    /\ alerted = FALSE /\ unhandled = FALSE

(***************************************************************************)
(* Rendering.                                                              *)
(***************************************************************************)
\* disabled={!account || !CONTRACT_ADDRESS}
PingDisabled == account = "" \/ CONTRACT_ADDRESS = ""

\* {account ? 'Reconnect' : 'Connect Wallet'}
ConnectLabel == IF account # "" THEN "Reconnect" ELSE "Connect Wallet"

\* {status || 'Idle'}
StatusLine == IF status # "" THEN status ELSE "Idle"

\* the href of the Tx link, "" when the link is not rendered
ExplorerLink == IF txHash # "" THEN "https://basescan.org/tx/" \o txHash ELSE ""

\* {uniquePings !== null ? `${uniquePings} unique pings` : '--'}
CounterShown == uniquePings # NULL

\* the effects of the last commit have run
EffectsFlushed == provider = effProvider /\ signer = effSigner

\* The component lives and no effect is waiting.  A continuation of an await
\* that calls a state setter makes React render, and React runs the effects
\* of the last commit before it renders again.  Once the component is
\* unmounted the setters do nothing, and the model takes no further step.
Live == mounted = "mounted" /\ EffectsFlushed

(***************************************************************************)
(* Object identities.                                                      *)
(***************************************************************************)
\* new ethers.providers.Web3Provider(...): an object that is not the current
NewProvider == (provider % 2) + 1

LiveHandles == {signer, effSigner, contract, effContract} \cup subs
               \cup {e[1] : e \in notif}

\* provider.getSigner(): an object no reference in the state points to
NewSigner == CHOOSE i \in 1..MaxHandles :
               /\ i \notin LiveHandles
               /\ \A j \in 1..(i - 1) : j \in LiveHandles

(***************************************************************************)
(* The Ping subscription.                                                  *)
(***************************************************************************)
\* c.on("Ping", onPing), inside try/catch: when it throws nothing is registered
Subscribe(S, c, ok) == IF ok THEN S \cup {c} ELSE S

\* c.off("Ping", onPing), inside try/catch
Unsubscribe(S, c) == S \ {c}

\* an effect that returns no cleanup
CleanupMissing(S) == S

\* the cleanup of the handle effect
Cleanup(S) == IF effContract # 0 THEN Unsubscribe(S, effContract) ELSE S

\* the contract emits Ping(user, count) for its n-th ping to every listener
Emit(N, n) == N \cup {<<c, n>> : c \in subs}

\* the events still owed to the listeners in S
Owed(N, S) == {e \in N : e[1] \in S}

(***************************************************************************)
(* Mounting, the effects and unmounting.                                   *)
(***************************************************************************)
AddRead(R, k) == [R EXCEPT ![k] = @ + 1]

\* effect 3 without the test of the address
MakesHandleAnyAddress == signer # 0

\* effect 3: if (!signer || !CONTRACT_ADDRESS) return
MakesHandle == signer # 0 /\ CONTRACT_ADDRESS # ""

\* an effect 4 that reads only once an account is stored
CanReadWithAccount == CONTRACT_ADDRESS # "" /\ account # ""

\* effect 4: if (!CONTRACT_ADDRESS) return; readProvider = provider ||
\* (window.ethereum ? new Web3Provider(window.ethereum) : null);
\* if (!readProvider) return
CanRead == CONTRACT_ADDRESS # "" /\ (provider # 0 \/ ethereum)

\* The effects of the first commit, in order.  Effect 1 stores a provider
\* when the wallet is there; effects 2 and 3 return at once (provider and
\* signer are null in the first render); effect 4 reads the counter through
\* a provider of its own.
MountEffects ==
    /\ mounted = "mounting"
    /\ mounted' = "mounted"
    /\ provider' = IF ethereum THEN NewProvider ELSE provider
    /\ reads' = IF CanRead THEN AddRead(reads, chain) ELSE reads
    /\ UNCHANGED <<env, lastRead, signer, account, contract, status,
                   uniquePings, txHash, effState, subs, notif, applied, chain,
                   walletAuth, listPending, connPending, events, attempts,
                   alerted, unhandled>>

\* The effects of a later commit: those whose deps changed, in order.
\*   effect 2 [provider]: provider.listAccounts()
\*   effect 3 [signer, CONTRACT_ADDRESS]: cleanup of the last run, then a new
\*            handle, setContract and c.on("Ping", onPing)
\*   effect 4 [provider, CONTRACT_ADDRESS]: readContract.uniquePings()
RunEffects ==
    /\ mounted = "mounted"
    /\ ~EffectsFlushed
    /\ LET pChanged == provider # effProvider
           sChanged == signer # effSigner
           makes    == sChanged /\ MakesHandle
           doesRead == pChanged /\ CanRead
       IN  /\ listPending' = IF pChanged THEN listPending + 1 ELSE listPending
           /\ \E onOk \in (IF makes THEN BOOLEAN ELSE {TRUE}) :
                /\ subs' = IF ~sChanged THEN subs
                           ELSE IF makes THEN Subscribe(Cleanup(subs), signer, onOk)
                           ELSE Cleanup(subs)
                /\ notif' = Owed(notif, subs')
           /\ contract' = IF makes THEN signer ELSE contract
           /\ effContract' = IF ~sChanged THEN effContract
                             ELSE IF makes THEN signer ELSE 0
           /\ reads' = IF doesRead THEN AddRead(reads, chain) ELSE reads
    /\ effProvider' = provider
    /\ effSigner' = signer
    /\ UNCHANGED <<env, lastRead, mounted, provider, signer, account, status,
                   uniquePings, txHash, applied, chain, walletAuth,
                   connPending, events, attempts, alerted, unhandled>>

\* The component is removed: the cleanup of the handle effect runs; effects
\* of a commit that had not run yet never run.
Unmount ==
    /\ mounted = "mounted"
    /\ mounted' = "unmounted"
    /\ subs' = Cleanup(subs)
    /\ notif' = Owed(notif, subs')
    /\ effContract' = 0
    /\ UNCHANGED <<env, lastRead, provider, signer, account, contract, status,
                   uniquePings, txHash, effProvider, effSigner, applied, chain,
                   walletAuth, listPending, connPending, events, reads,
                   attempts, alerted, unhandled>>

(***************************************************************************)
(* Effect 2: the silent account check.                                     *)
(***************************************************************************)
\* accounts.length > 0: setAccount(accounts[0]); setSigner(provider.getSigner())
ListAccountsFound ==
    /\ Live
    /\ listPending > 0 /\ walletAuth # ""
    /\ listPending' = listPending - 1
    /\ account' = walletAuth
    /\ signer' = NewSigner
    /\ UNCHANGED <<env, lastRead, mounted, provider, contract, status,
                   uniquePings, txHash, effState, subs, notif, applied, chain,
                   walletAuth, connPending, events, reads, attempts, alerted,
                   unhandled>>

\* accounts.length = 0: nothing is stored
ListAccountsEmpty ==
    /\ Live
    /\ listPending > 0 /\ walletAuth = ""
    /\ listPending' = listPending - 1
    /\ UNCHANGED <<env, lastRead, mounted, provider, signer, account, contract,
                   status, uniquePings, txHash, effState, subs, notif, applied,
                   chain, walletAuth, connPending, events, reads, attempts,
                   alerted, unhandled>>

\* the async function of effect 2 has no try/catch and its promise no handler
ListAccountsHandled == FALSE

\* provider.listAccounts() rejects
ListAccountsFailed ==
    /\ Live
    /\ listPending > 0
    /\ listPending' = listPending - 1
    /\ unhandled' = (unhandled \/ ~ListAccountsHandled)
    /\ UNCHANGED <<env, lastRead, mounted, provider, signer, account, contract,
                   status, uniquePings, txHash, effState, subs, notif, applied,
                   chain, walletAuth, connPending, events, reads, attempts,
                   alerted>>

(***************************************************************************)
(* Effect 4: the counter read.                                             *)
(***************************************************************************)
\* a read issued when the chain was at k answers with the counter of then
\* or of any later moment up to now
Served(k) == k..chain

\* setUniquePings(Number(v.toString()))
ReadResolved ==
    /\ Live
    /\ \E k \in DOMAIN reads : \E j \in Served(k) :
         /\ reads[k] > 0
         /\ reads' = [reads EXCEPT ![k] = @ - 1]
         /\ lastRead' = ChainValue(j)
         /\ uniquePings' = ToNumber(lastRead')
    /\ UNCHANGED <<env, mounted, provider, signer, account, contract, status,
                   txHash, effState, subs, notif, applied, chain, walletAuth,
                   listPending, connPending, events, attempts, alerted,
                   unhandled>>

\* what the catch of the read stores: catch (e) { /* ignore ... */ }
ReadFailedStatus == status

ReadFailed ==
    /\ Live
    /\ \E k \in DOMAIN reads :
         /\ reads[k] > 0
         /\ reads' = [reads EXCEPT ![k] = @ - 1]
    /\ status' = ReadFailedStatus
    /\ UNCHANGED <<env, lastRead, mounted, provider, signer, account, contract,
                   uniquePings, txHash, effState, subs, notif, applied, chain,
                   walletAuth, listPending, connPending, events, attempts,
                   alerted, unhandled>>

(***************************************************************************)
(* connectWallet.                                                          *)
(***************************************************************************)
\* a connectWallet without the test of window.ethereum
WalletMissingNever == FALSE

\* if (!window.ethereum)
WalletMissing == ~ethereum

\* the click, up to the await: without a wallet the install notice and
\* return; else window.ethereum.request({method: "eth_requestAccounts"})
ConnectWallet ==
    /\ Live
    /\ events < MaxEvents
    /\ events' = events + 1
    /\ IF WalletMissing
       THEN alerted' = TRUE /\ UNCHANGED connPending
       ELSE connPending' = connPending + 1 /\ UNCHANGED alerted
    /\ UNCHANGED <<env, lastRead, mounted, provider, signer, account, contract,
                   status, uniquePings, txHash, effState, subs, notif, applied,
                   chain, walletAuth, listPending, reads, attempts, unhandled>>

\* the user approves: setAccount(accounts[0]); setProvider(p);
\* setSigner(p.getSigner()); setStatus("")
ConnectApproved ==
    /\ Live
    /\ connPending > 0
    /\ connPending' = connPending - 1
    /\ \E a \in Accounts :
         /\ walletAuth' = a
         /\ account' = a
    /\ provider' = NewProvider
    /\ signer' = NewSigner
    /\ status' = ""
    /\ UNCHANGED <<env, lastRead, mounted, contract, uniquePings, txHash,
                   effState, subs, notif, applied, chain, listPending, events,
                   reads, attempts, alerted, unhandled>>

\* a catch that also resets the account
RejectedAccountCleared == ""

\* the account the catch of connectWallet leaves in the state: the request
\* rejects before setAccount is reached
RejectedAccount == account

\* the user declines: catch (e) { setStatus("Wallet connection rejected") }
ConnectRejected ==
    /\ Live
    /\ connPending > 0
    /\ connPending' = connPending - 1
    /\ status' = REJECTED
    /\ account' = RejectedAccount
    /\ UNCHANGED <<env, lastRead, mounted, provider, signer, contract,
                   uniquePings, txHash, effState, subs, notif, applied, chain,
                   walletAuth, listPending, events, reads, attempts, alerted,
                   unhandled>>

(***************************************************************************)
(* doPing.                                                                 *)
(***************************************************************************)
\* The position of an invocation in doPing: "Submitting" at await
\* contract.ping(), "PendingConfirmation" at await tx.wait(), "Confirmed" at
\* await contract.uniquePings() (the status is the success message), and
\* "Idle" when it has returned.
\* the invocation of slot s is at an await
InFlight(s) == attempts[s].pc # "Idle"

\* a new invocation takes the lowest slot that holds no invocation in flight
NextSlot(s) == ~InFlight(s) /\ \A t \in Slots : t < s => InFlight(t)

\* a guard that tests the account the button tests
GuardOnAccount == account # ""

\* a guard that also refuses while an invocation is at an await
GuardWhenIdle == contract # 0 /\ \A s \in Slots : attempts[s].pc = "Idle"

\* if (!contract)
GuardPasses == contract # 0

\* the transaction identifier a passing trigger leaves in the state:
\* doPing does not touch txHash before tx is returned
TxHashOnTrigger == txHash

\* the guard fails: the guidance message and return
DoPingNotSet ==
    /\ mounted = "mounted"
    /\ ~GuardPasses
    /\ status' = GUIDANCE
    /\ UNCHANGED <<env, lastRead, mounted, provider, signer, account, contract,
                   uniquePings, txHash, effState, subs, notif, applied, chain,
                   walletAuth, listPending, connPending, events, reads,
                   attempts, alerted, unhandled>>

\* the guard passes: setStatus("Sending ..."); await contract.ping()
DoPingSubmit(s) ==
    /\ Live
    /\ GuardPasses
    /\ NextSlot(s)
    /\ events < MaxEvents
    /\ events' = events + 1
    /\ status' = SENDING
    /\ txHash' = TxHashOnTrigger
    /\ attempts' = [attempts EXCEPT ![s] =
                      [pc |-> "Submitting", h |-> "", k0 |-> 0]]
    /\ UNCHANGED <<env, lastRead, mounted, provider, signer, account, contract,
                   uniquePings, effState, subs, notif, applied, chain,
                   walletAuth, listPending, connPending, reads, alerted,
                   unhandled>>

DoPing == DoPingNotSet \/ \E s \in Slots : DoPingSubmit(s)

\* the hash of a new transaction: one no transaction shown or in flight has
UsedHashes == {txHash} \cup {attempts[s].h : s \in Slots}

FreshHash == Hashes[CHOOSE i \in 1..Len(Hashes) :
                      /\ Hashes[i] \notin UsedHashes
                      /\ \A j \in 1..(i - 1) : Hashes[j] \in UsedHashes]

\* the continuation without setTxHash(tx.hash)
StoredHashStale(h) == txHash

\* what the continuation of contract.ping() stores of the returned tx
StoredHash(h) == h

\* tx returned: setTxHash(tx.hash); setStatus("Transaction sent ...");
\* await tx.wait()
PingSent(s) ==
    /\ Live
    /\ attempts[s].pc = "Submitting"
    /\ LET h == FreshHash
       IN  /\ txHash' = StoredHash(h)
           /\ attempts' = [attempts EXCEPT ![s].pc = "PendingConfirmation",
                                           ![s].h = h]
    /\ status' = SENT
    /\ UNCHANGED <<env, lastRead, mounted, provider, signer, account, contract,
                   uniquePings, effState, subs, notif, applied, chain,
                   walletAuth, listPending, connPending, events, reads,
                   alerted, unhandled>>

\* the transaction is mined (the contract counts the ping and emits Ping)
\* and tx.wait() returns: setStatus("Confirmed! ..."); then
\* await contract.uniquePings() inside its own try
PingConfirmed(s) ==
    /\ Live
    /\ attempts[s].pc = "PendingConfirmation"
    /\ chain' = chain + 1
    /\ notif' = Emit(notif, chain + 1)
    /\ status' = CONFIRMED
    /\ attempts' = [attempts EXCEPT ![s].pc = "Confirmed", ![s].k0 = chain + 1]
    /\ UNCHANGED <<env, lastRead, mounted, provider, signer, account, contract,
                   uniquePings, txHash, effState, subs, applied, walletAuth,
                   listPending, connPending, events, reads, alerted,
                   unhandled>>


\* setUniquePings(Number(v.toString()))
RefreshResolved(s) ==
    /\ Live
    /\ attempts[s].pc = "Confirmed"
    /\ \E j \in Served(attempts[s].k0) :
         /\ lastRead' = ChainValue(j)
         /\ uniquePings' = ToNumber(lastRead')
    /\ attempts' = [attempts EXCEPT ![s] = IdleAttempt]
    /\ UNCHANGED <<env, mounted, provider, signer, account, contract, status,
                   txHash, effState, subs, notif, applied, chain, walletAuth,
                   listPending, connPending, events, reads, alerted,
                   unhandled>>

\* a refresh without its own try: its failure reaches the outer catch
RefreshFailedStatusOuter == FALLBACK

\* what the inner catch of the refresh stores in the status: catch (e) {}
RefreshFailedStatus == status

RefreshFailed(s) ==
    /\ Live
    /\ attempts[s].pc = "Confirmed"
    /\ attempts' = [attempts EXCEPT ![s] = IdleAttempt]
    /\ status' = RefreshFailedStatus
    /\ UNCHANGED <<env, lastRead, mounted, provider, signer, account, contract,
                   uniquePings, txHash, effState, subs, notif, applied, chain,
                   walletAuth, listPending, connPending, events, reads,
                   alerted, unhandled>>

\* the two message fields tested in the other order
ErrorStatusGenericFirst(err) ==
    IF err.message # "" THEN "Error: " \o err.message
    ELSE IF err.data # "" THEN "Error: " \o err.data
    ELSE FALLBACK

\* if (err?.data?.message) ... else if (err?.message) ... else ...
ErrorStatus(err) ==
    IF err.data # "" THEN "Error: " \o err.data
    ELSE IF err.message # "" THEN "Error: " \o err.message
    ELSE FALLBACK

\* an outer catch that every await of doPing can reach
CanFailAnywhere(pc) == pc # "Idle"

\* the awaits whose rejection reaches the outer catch: contract.ping() and
\* tx.wait(); the refresh read has a try of its own
CanFail(pc) == pc \in {"Submitting", "PendingConfirmation"}

\* a catch that calls contract.ping() again
AfterFailureRetry == [pc |-> "Submitting", h |-> "", k0 |-> 0]

\* the outer catch sets the status and doPing returns
AfterFailure == IdleAttempt

\* contract.ping() or tx.wait() rejects: the outer catch
PingFailed(s) ==
    /\ Live
    /\ CanFail(attempts[s].pc)
    /\ \E err \in Errors : status' = ErrorStatus(err)
    /\ attempts' = [attempts EXCEPT ![s] = AfterFailure]
    /\ UNCHANGED <<env, lastRead, mounted, provider, signer, account, contract,
                   uniquePings, txHash, effState, subs, notif, applied, chain,
                   walletAuth, listPending, connPending, events, reads,
                   alerted, unhandled>>

(***************************************************************************)
(* The Ping events.                                                        *)
(***************************************************************************)
\* a listener whose updater returns prev once the counter is set
OnPingKeepsPrev(prev, count) == IF prev = NULL THEN ToNumber(count) ELSE prev

\* setUniquePings((prev) => { try { return Number(count.toString()) }
\*                            catch (e) { return prev } })
OnPing(prev, count) == ToNumber(count)

\* the listener of handle c receives the oldest event owed to it
Notify(c) ==
    /\ Live
    /\ c \in subs
    /\ \E n \in 1..MaxEvents :
         /\ <<c, n>> \in notif
         /\ \A m \in 1..(n - 1) : <<c, m>> \notin notif
         /\ notif' = notif \ {<<c, n>>}
         /\ applied' = [applied EXCEPT ![n] = @ + 1]
         /\ uniquePings' = OnPing(uniquePings, ChainValue(n))
    /\ UNCHANGED <<env, lastRead, mounted, provider, signer, account, contract,
                   status, txHash, effState, subs, chain, walletAuth,
                   listPending, connPending, events, reads, attempts, alerted,
                   unhandled>>

\* another wallet pings the contract
OtherPing ==
    /\ mounted = "mounted"
    /\ events < MaxEvents
    /\ events' = events + 1
    /\ chain' = chain + 1
    /\ notif' = Emit(notif, chain + 1)
    /\ UNCHANGED <<env, lastRead, mounted, provider, signer, account, contract,
                   status, uniquePings, txHash, effState, subs, applied,
                   walletAuth, listPending, connPending, reads, attempts,
                   alerted, unhandled>>

(***************************************************************************)
(* The specification.                                                      *)
(***************************************************************************)
Next ==
    \/ MountEffects
    \/ RunEffects
    \/ Unmount
    \/ ListAccountsFound
    \/ ListAccountsEmpty
    \/ ListAccountsFailed
    \/ ReadResolved
    \/ ReadFailed
    \/ ConnectWallet
    \/ ConnectApproved
    \/ ConnectRejected
    \/ DoPingNotSet
    \/ \E s \in Slots : DoPingSubmit(s)
    \/ \E s \in Slots : PingSent(s)
    \/ \E s \in Slots : PingConfirmed(s)
    \/ \E s \in Slots : RefreshResolved(s)
    \/ \E s \in Slots : RefreshFailed(s)
    \/ \E s \in Slots : PingFailed(s)
    \/ \E c \in subs : Notify(c)
    \/ OtherPing

Spec == Init /\ [][Next]_vars

(***************************************************************************)
(* The claims.                                                             *)
(***************************************************************************)
AllIdle == \A s \in Slots : attempts[s].pc = "Idle"

OnlyInFlight(s) == \A t \in Slots : t # s => attempts[t].pc = "Idle"

\* C1: a trigger that passes the guard while no other invocation is in
\* flight (Idle -> Submitting) leaves the stored transaction identifier
\* empty: the identifier of an earlier attempt is cleared.
C1_IdClearedOnTrigger ==
    [][(AllIdle /\ \E s \in Slots : attempts'[s].pc = "Submitting")
          => txHash' = ""]_vars

\* C2: no failure of an asynchronous step (account check, authorization
\* request, counter read, submission, confirmation, refresh, subscribe,
\* unsubscribe) is left without a handler.
C2_NoUnhandledFailure == unhandled = FALSE

\* C3: with no target address configured the trigger control is disabled,
\* no contract handle exists, no ping, counter read or subscription is ever
\* issued, and an invocation of doPing changes nothing but the status, which
\* becomes the guidance message.
C3_NotConfigured ==
    /\ [](CONTRACT_ADDRESS = "" =>
            /\ PingDisabled
            /\ contract = 0 /\ effContract = 0
            /\ subs = {} /\ notif = {}
            /\ \A k \in DOMAIN reads : reads[k] = 0
            /\ AllIdle
            /\ txHash = "" /\ uniquePings = NULL)
    /\ [][(CONTRACT_ADDRESS = "" /\ DoPing) =>
            /\ status' = GUIDANCE
            /\ UNCHANGED <<attempts, reads, subs, notif, contract, txHash,
                           uniquePings, chain, listPending, connPending>>]_vars

\* a wallet is connected, no address is configured and doPing was invoked
C3_Witness ==
    /\ CONTRACT_ADDRESS = "" /\ account # "" /\ signer # 0 /\ EffectsFlushed
    /\ status = GUIDANCE

\* C4: an invocation moves only Idle -> Submitting -> PendingConfirmation ->
\* Confirmed (or to a failure from the first two); entering Submitting sets
\* the "waiting for wallet confirmation" status; entering
\* PendingConfirmation with the returned identifier h stores h, makes the
\* explorer link target h and sets the "sent" status; entering Confirmed
\* sets the success status with the refresh read issued for the counter of
\* that moment.
C4_Lifecycle ==
    [][\A s \in Slots :
         LET pc  == attempts[s].pc
             pc2 == attempts'[s].pc
         IN  pc2 # pc =>
               /\ pc = "Idle" => pc2 = "Submitting" /\ status' = SENDING
               /\ pc = "Submitting" =>
                    /\ pc2 \in {"PendingConfirmation", "Idle"}
                    /\ pc2 = "PendingConfirmation" =>
                         /\ attempts'[s].h # ""
                         /\ txHash' = attempts'[s].h
                         /\ ExplorerLink' = "https://basescan.org/tx/" \o attempts'[s].h
                         /\ status' = SENT
               /\ pc = "PendingConfirmation" =>
                    /\ pc2 \in {"Confirmed", "Idle"}
                    /\ pc2 = "Confirmed" =>
                         /\ status' = CONFIRMED
                         /\ txHash' = txHash
                         /\ attempts'[s].k0 = chain'
               /\ pc = "Confirmed" => pc2 = "Idle"]_vars

\* a single invocation has been confirmed and its refresh read is issued
C4_Witness ==
    \E s \in Slots :
        /\ attempts[s].pc = "Confirmed" /\ OnlyInFlight(s)
        /\ status = CONFIRMED
        /\ txHash = attempts[s].h /\ txHash # ""

\* C5: when the user rejects the authorization request of connect(), the
\* status becomes the rejection notice and account, provider, signing
\* capability, contract handle, cached counter and transaction identifier
\* stay what they were; an empty account stays empty and the trigger
\* control stays disabled.
C5_RejectionKeepsState ==
    [][ConnectRejected =>
         /\ status' = REJECTED
         /\ UNCHANGED <<account, provider, signer, contract, uniquePings,
                        txHash, subs, effState, attempts>>
         /\ (account = "" => account' = "" /\ PingDisabled')]_vars

\* the only connect() of the run was rejected and no account is stored
C5_Witness ==
    /\ connPending = 0
    /\ status = REJECTED
    /\ account = "" /\ signer = 0 /\ PingDisabled

\* the n-th Ping event is applied by this step
Applies(n) == applied'[n] = applied[n] + 1

\* the counter values a read issued at k can carry when it is answered
Carried(k) == {ChainValue(j) : j \in Served(k)}

\* C6 as stated: a notification with count c leaves the cached counter at c.
C6_CounterIsCarriedValue ==
    [][\A n \in 1..MaxEvents : Applies(n) => uniquePings' = ChainValue(n)]_vars

\* C6 amended: the cached counter changes only when a read, a refresh or a
\* notification is applied, and it then holds the coerced value
\* Number(x.toString()) of the value that update carries, whatever it held
\* before; the coerced value is the carried value itself up to 2^53.
C6_LastWriterWins ==
    [][/\ \A n \in 1..MaxEvents : Applies(n) =>
            /\ uniquePings' = ToNumber(ChainValue(n))
            /\ Leq(ChainValue(n), TwoTo53) => uniquePings' = ChainValue(n)
       /\ ReadResolved =>
            \E k \in DOMAIN reads : reads[k] > 0 /\
                uniquePings' \in {ToNumber(v) : v \in Carried(k)}
       /\ \A s \in Slots : RefreshResolved(s) =>
            uniquePings' \in {ToNumber(v) : v \in Carried(attempts[s].k0)}
       /\ uniquePings' # uniquePings =>
            \/ ReadResolved
            \/ \E s \in Slots : RefreshResolved(s)
            \/ \E n \in 1..MaxEvents : Applies(n)]_vars

\* the notification of the first ping was applied on top of a read of the
\* older count: every read has been answered and the counter is the count
\* the event carried
C6_Witness ==
    /\ chainBase = Zero /\ chain = 1 /\ applied[1] = 1
    /\ \A k \in DOMAIN reads : reads[k] = 0
    /\ AllIdle
    /\ uniquePings = ChainValue(1)

C8_EntryGuard ==
    [][DoPing =>
         /\ (\E s \in Slots : attempts'[s].pc # attempts[s].pc)
              => (signer # 0 /\ CONTRACT_ADDRESS # "")
         /\ (signer = 0 \/ CONTRACT_ADDRESS = "") =>
              /\ status' = GUIDANCE
              /\ UNCHANGED <<attempts, txHash, uniquePings>>]_vars

\* an address is configured, no signer exists and doPing was invoked
C8_Witness ==
    /\ CONTRACT_ADDRESS # "" /\ signer = 0 /\ mounted = "mounted"
    /\ status = GUIDANCE /\ AllIdle

\* C9: a failed counter read, at load or after a confirmation, leaves the
\* cached counter and the status line as they were; after a failed refresh
\* the status is not an error.
C9_ReadFailureSilent ==
    [][(ReadFailed \/ \E s \in Slots : RefreshFailed(s)) =>
         /\ uniquePings' = uniquePings
         /\ status' = status
         /\ UNCHANGED <<txHash, account, contract>>]_vars

\* a confirmed invocation has returned and the counter was never set: its
\* refresh failed, and the status is still the success message
C9_Witness ==
    /\ AllIdle /\ chain > 0
    /\ status = CONFIRMED
    /\ uniquePings = NULL

\* C10: the status of a failed submission or confirmation is "Error: " and
\* the structured message when the error has one, else "Error: " and the
\* generic message when it has one, else the fixed string; an error with
\* both shows the structured one.
C10_ErrorPriority ==
    [][\A s \in Slots :
         (attempts[s].pc \in {"Submitting", "PendingConfirmation"}
            /\ attempts'[s].pc = "Idle")
         => status' \in {"Error: insufficient funds",
                         "Error: user rejected transaction",
                         "Transaction failed or rejected."}]_vars

\* a submission failed with a structured message
C10_Witness ==
    /\ status = "Error: insufficient funds"
    /\ AllIdle /\ txHash = ""

\* C11 as stated: with a target address configured a counter read is issued
\* at load time, with or without an authorized account and also when no
\* wallet is present, and again whenever the provider changes.
C11_ReadWithoutWallet ==
    [][/\ (MountEffects /\ CONTRACT_ADDRESS # "") =>
            reads' = AddRead(reads, chain)
       /\ (RunEffects /\ provider # effProvider /\ CONTRACT_ADDRESS # "") =>
            reads' = AddRead(reads, chain)]_vars

\* C11 amended: the effects of a commit issue a counter read exactly when a
\* target address is configured, a wallet is present and the commit is the
\* first one or changed the provider, whether or not an account is
\* authorized or stored; with no wallet present no read is ever issued and
\* the counter is never set.
C11_ReadWhenWalletPresent ==
    /\ [][/\ MountEffects =>
               reads' = (IF CONTRACT_ADDRESS # "" /\ ethereum
                         THEN AddRead(reads, chain) ELSE reads)
          /\ RunEffects =>
               reads' = (IF CONTRACT_ADDRESS # "" /\ provider # effProvider
                         THEN AddRead(reads, chain) ELSE reads)
          /\ \A k \in DOMAIN reads :
               reads'[k] > reads[k] => (MountEffects \/ RunEffects)]_vars
    /\ [](~ethereum =>
             ((\A k \in DOMAIN reads : reads[k] = 0) /\ uniquePings = NULL))

\* no account is authorized or stored, and both the read of the first commit
\* and the read that follows the stored provider have been issued
C11_Witness ==
    /\ walletAuth = "" /\ account = "" /\ signer = 0
    /\ provider # 0 /\ EffectsFlushed
    /\ reads[0] = 2

\* C12: with no wallet provider present, connect() shows the install notice,
\* opens no authorization request, leaves no rejection unhandled and leaves
\* account, provider, signing capability, contract handle, status, cached
\* counter and transaction identifier as they were.
C12_ConnectFailsFast ==
    /\ [][(ConnectWallet /\ ~ethereum) =>
             /\ alerted'
             /\ UNCHANGED <<connPending, listPending, unhandled, account,
                            provider, signer, contract, status, uniquePings,
                            txHash, effState, subs, reads, attempts>>]_vars
    /\ [](~ethereum => connPending = 0 /\ account = "" /\ provider = 0
                          /\ signer = 0 /\ contract = 0 /\ ~unhandled)
    /\ [](alerted => ~ethereum)

\* connect() was clicked without a wallet: the notice was shown
C12_Witness ==
    /\ ~ethereum /\ alerted /\ events > 0
    /\ connPending = 0 /\ account = "" /\ status = ""

\* C13: when a uniquePings() call, of the read effect or of the refresh after
\* a confirmation, is answered with v, the cached counter right after is
\* Number(v.toString()) in both cases, the counter is displayed, and for v up
\* to 2^53 it is v exactly.
C13_ReadPassthrough ==
    [][(ReadResolved \/ \E s \in Slots : RefreshResolved(s)) =>
         /\ lastRead' # NULL
         /\ uniquePings' = ToNumber(lastRead')
         /\ CounterShown'
         /\ Leq(lastRead', TwoTo53) => uniquePings' = lastRead']_vars

\* the refresh of a confirmed ping was answered with the new count while the
\* reads of the effects are still in flight and no notification was applied
C13_Witness ==
    /\ provider = 1 /\ reads[0] = 2 /\ reads[1] = 0 /\ applied[1] = 0
    /\ AllIdle /\ chain = 1 /\ status = CONFIRMED
    /\ lastRead = ChainValue(1) /\ Leq(lastRead, TwoTo53)
    /\ uniquePings = lastRead

\* the status texts of a failed invocation
ErrorTexts == {ErrorStatus(err) : err \in Errors}

\* C14: every invocation starts Idle and moves only Idle -> Submitting ->
\* PendingConfirmation -> Confirmed, or from Submitting or
\* PendingConfirmation to Failed (it returns with an error status); an
\* invocation in PendingConfirmation or Confirmed has a recorded transaction
\* identifier, Confirmed is entered only from PendingConfirmation, and an
\* invocation that is Confirmed only returns, without setting a status.
C14_Edges ==
    /\ AllIdle
    /\ [](\A s \in Slots :
            /\ attempts[s].pc \in {"Idle", "Submitting", "PendingConfirmation",
                                   "Confirmed"}
            /\ attempts[s].pc \in {"PendingConfirmation", "Confirmed"}
                 <=> attempts[s].h # "")
    /\ [][\A s \in Slots :
            LET pc  == attempts[s].pc
                pc2 == attempts'[s].pc
            IN  pc2 # pc =>
                  \/ pc = "Idle" /\ pc2 = "Submitting"
                  \/ /\ pc = "Submitting" /\ pc2 = "PendingConfirmation"
                     /\ attempts'[s].h # "" /\ txHash' = attempts'[s].h
                  \/ /\ pc = "PendingConfirmation" /\ pc2 = "Confirmed"
                     /\ attempts'[s].h = attempts[s].h
                  \/ /\ pc \in {"Submitting", "PendingConfirmation"}
                     /\ pc2 = "Idle" /\ status' \in ErrorTexts
                  \/ /\ pc = "Confirmed" /\ pc2 = "Idle"
                     /\ status' = status]_vars

\* of two overlapping invocations one failed and the other is Confirmed
C14_Witness ==
    \E s, t \in Slots :
        /\ attempts[s].pc = "Confirmed" /\ attempts[s].h # ""
        /\ attempts[t].pc = "Idle" /\ events = 2
        /\ status \in ErrorTexts

\* C15: neither the trigger control nor the entry guard looks at the
\* invocations in progress: the control is enabled exactly when an account
\* and an address are present, and whenever a handle exists a trigger is
\* accepted as a new invocation, also while others are in Submitting or
\* PendingConfirmation (as long as the run has a click left).
C15_SecondAccepted ==
    /\ PingDisabled <=> (account = "" \/ CONTRACT_ADDRESS = "")
    /\ (Live /\ contract # 0 /\ events < MaxEvents)
          => ENABLED (\E s \in Slots : DoPingSubmit(s))

\* with account and address set, two invocations are in flight at once: the
\* first has its transaction sent, the second is waiting for the wallet
C15_Witness ==
    /\ account # "" /\ CONTRACT_ADDRESS # "" /\ ~PingDisabled
    /\ \E s, t \in Slots :
         /\ s # t
         /\ attempts[s].pc = "PendingConfirmation"
         /\ attempts[t].pc = "Submitting"

\* the invocations that this step brings to await contract.ping()
Submitted == {s \in Slots : attempts'[s].pc = "Submitting"
                             /\ attempts[s].pc # "Submitting"}

\* C16: a failure in Submitting or PendingConfirmation leaves account,
\* provider, signing capability, contract handle, target address, cached
\* counter and the other invocations as they were and submits nothing; while
\* an error status is shown the guard still passes and a trigger is accepted;
\* and a call is submitted only by a step that is a user trigger passing the
\* guard, one call per trigger.
C16_NoAutomaticRetry ==
    /\ [][/\ \A s \in Slots : PingFailed(s) =>
                /\ UNCHANGED <<account, provider, signer, contract,
                               CONTRACT_ADDRESS, uniquePings, effState, subs>>
                /\ attempts' = [attempts EXCEPT ![s] = IdleAttempt]
                /\ GuardPasses'
          /\ Submitted # {} =>
                /\ Cardinality(Submitted) = 1
                /\ GuardPasses
                /\ events' = events + 1
                /\ status' = SENDING]_vars
    /\ []((status \in ErrorTexts /\ Live /\ events < MaxEvents) =>
            (GuardPasses /\ ENABLED (\E s \in Slots : DoPingSubmit(s))))

\* a first invocation got its transaction sent and failed before it was
\* mined; a second trigger was accepted and is waiting for the wallet
C16_Witness ==
    /\ chain = 0 /\ txHash # ""
    /\ \E s \in Slots : attempts[s].pc = "Submitting" /\ OnlyInFlight(s)
    /\ status = SENDING

\* C17: whenever the trigger control is enabled a signing contract handle
\* exists, so an invocation of doPing from the enabled control never takes
\* the guidance branch, in the states between the storing of the account and
\* the creation of the handle too.
C17_EnabledControlHasHandle ==
    [][(~PingDisabled /\ DoPing) =>
         (contract # 0 /\ status' # GUIDANCE)]_vars

\* C18: the status a settling invocation sets and the displayed transaction
\* identifier belong to the same invocation: when an invocation is confirmed
\* the identifier shown is the one of its transaction, and when one fails
\* the identifier shown is its own or none.
C18_StatusAndIdSameAttempt ==
    [][\A s \in Slots :
         /\ PingConfirmed(s) => txHash' = attempts[s].h
         /\ PingFailed(s) => txHash' \in {"", attempts[s].h}]_vars

\* C19: the cached counter, once set, never decreases.
C19_CounterNeverDecreases ==
    [][(uniquePings # NULL /\ uniquePings' # NULL) =>
         Leq(uniquePings, uniquePings')]_vars

\* C20: the status is empty (shown as 'Idle') only when no invocation is in
\* Submitting or PendingConfirmation.
C20_EmptyStatusMeansIdle ==
    status = "" =>
        \A s \in Slots :
            attempts[s].pc \notin {"Submitting", "PendingConfirmation"}
====
